---------------------------- MODULE Spec2Model ----------------------------
(***************************************************************************)
(* A model of Minecraft2D.py: the World (src/game/world.py) with its       *)
(* sparse block mapping, terrain construction, collision and line-of-sight *)
(* queries and the validated break / place transitions; Game.__init__      *)
(* (src/main.py) step by step; and the Player (src/game/player.py) with    *)
(* its per-tick physics.                                                   *)
(*                                                                         *)
(* The world is scaled down (WORLD_WIDTH, WORLD_HEIGHT are bounds of the   *)
(* model); BLOCK_SIZE, the player rectangle and the physics constants keep *)
(* their real values and every conversion between pixels and cells is the  *)
(* floor division of the source.                                           *)
(*                                                                         *)
(* Specifications: Spec (break / place calls on a built world),            *)
(* SpecStartup (Game.__init__), SpecSight (check_line_of_sight queries),   *)
(* SpecPlay (keyboard and Player.update), SpecPlayFair (the same with the  *)
(* ticks going on), SpecBuild (Player.update and block placement).         *)
(***************************************************************************)
EXTENDS Integers, Sequences, FiniteSets, TLC

VARIABLES blocks, call, nops, startup, player, pressed, upd

vars == <<blocks, call, nops, startup, player, pressed, upd>>

\* the variables of the player and of Game.__init__, which the World's
\* break / place handlers leave alone
playerVars == <<startup, player, pressed, upd>>

---------------------------------------------------------------------------
(* Bounds of the model *)

\* settings.py sets 100; scaled down
WORLD_WIDTH == 5

\* settings.py sets 50; scaled down, kept large enough for the terrain clamp
\* [WORLD_HEIGHT // 3, WORLD_HEIGHT - 10] to hold three heights
WORLD_HEIGHT == 17

\* number of break_block / place_block calls in a run
MaxOps == 2

---------------------------------------------------------------------------
(* Program constants *)

BLOCK_SIZE == 32

\* Player.__init__: int(BLOCK_SIZE * 1.2), int(BLOCK_SIZE * 2.6)
PLAYER_WIDTH == (BLOCK_SIZE * 12) \div 10

PLAYER_HEIGHT == (BLOCK_SIZE * 26) \div 10

\* Game.available_blocks
available_blocks == {"dirt", "stone", "wood"}

---------------------------------------------------------------------------
(* Helpers: Python's abs, min, max, and // on integers (floor division)    *)

Abs(n) == IF n < 0 THEN -n ELSE n

Min(a, b) == IF a < b THEN a ELSE b

Max(a, b) == IF a > b THEN a ELSE b

\* Python's a // b for b > 0 rounds towards minus infinity, as \div does
FloorDiv(a, b) == a \div b

\* pos // BLOCK_SIZE: the cell index of a pixel coordinate
CellOf(p) == FloorDiv(p, BLOCK_SIZE)

---------------------------------------------------------------------------
(* pygame.Rect *)

Rect(x, y, w, h) == [x |-> x, y |-> y, w |-> w, h |-> h]

\* Block.__init__: the pixel rectangle of the block stored at cell <<x, y>>
BlockRect(x, y) == Rect(x * BLOCK_SIZE, y * BLOCK_SIZE, BLOCK_SIZE, BLOCK_SIZE)

\* pygame.Rect.colliderect: open overlap of two rectangles; a rectangle of
\* zero width or height collides with nothing
colliderect(a, b) ==
    /\ a.w > 0 /\ a.h > 0 /\ b.w > 0 /\ b.h > 0
    /\ a.x < b.x + b.w
    /\ a.y < b.y + b.h
    /\ a.x + a.w > b.x
    /\ a.y + a.h > b.y

\* pygame.Rect.centerx / centery
centerx(r) == r.x + r.w \div 2

centery(r) == r.y + r.h \div 2

---------------------------------------------------------------------------
(* Block *)

\* Block.is_breakable
is_breakable(block_type) == block_type # "bedrock"

---------------------------------------------------------------------------
(* World construction *)

\* the clamp without its lower bound
ClampHeight_no_floor(h) == Min(h, WORLD_HEIGHT - 10)

\* generate_terrain: max(WORLD_HEIGHT // 3, min(height, WORLD_HEIGHT - 10))
ClampHeight(h) == Max(WORLD_HEIGHT \div 3, Min(h, WORLD_HEIGHT - 10))

\* generate_terrain: every height list the random walk can produce for n
\* more columns when the previous height is h
RECURSIVE HeightWalks(_, _)
HeightWalks(n, h) ==
    IF n = 0 THEN {<< >>}
    ELSE UNION { { <<hh>> \o s : s \in HeightWalks(n - 1, hh) } :
                 hh \in { ClampHeight(h + r) : r \in -1..1 } }

\* mutant of TerrainBlocks: the dirt layer starts one row higher
TerrainBlocks_dirt_higher(heights) ==
    LET keys == { c \in (0..(WORLD_WIDTH - 1)) \X (0..(WORLD_HEIGHT - 1)) :
                    c[2] >= heights[c[1] + 1] }
    IN  [ c \in keys |->
            IF c[2] > heights[c[1] + 1]
            THEN IF c[2] < WORLD_HEIGHT - 6 THEN "stone" ELSE "dirt"
            ELSE "grass" ]

\* generate_terrain: the blocks created from a height list (heights[x + 1]
\* is the height of column x)
TerrainBlocks(heights) ==
    LET keys == { c \in (0..(WORLD_WIDTH - 1)) \X (0..(WORLD_HEIGHT - 1)) :
                    c[2] >= heights[c[1] + 1] }
    IN  [ c \in keys |->
            IF c[2] > heights[c[1] + 1]
            THEN IF c[2] < WORLD_HEIGHT - 5 THEN "stone" ELSE "dirt"
            ELSE "grass" ]

\* add_bedrock_borders: bottom row and both side columns become bedrock
BorderCells ==
    { <<x, WORLD_HEIGHT - 1>> : x \in 0..(WORLD_WIDTH - 1) }
    \cup { <<0, y>> : y \in 0..(WORLD_HEIGHT - 1) }
    \cup { <<WORLD_WIDTH - 1, y>> : y \in 0..(WORLD_HEIGHT - 1) }

add_bedrock_borders(b) ==
    [ c \in DOMAIN b \cup BorderCells |->
        IF c \in BorderCells THEN "bedrock" ELSE b[c] ]

\* World.__init__: every world the constructor can return
generate_terrain == { TerrainBlocks(hs) : hs \in HeightWalks(WORLD_WIDTH, WORLD_HEIGHT \div 2) }

NewWorlds == { add_bedrock_borders(b) : b \in generate_terrain }

---------------------------------------------------------------------------
(* World queries *)

\* get_block: the block type at a cell, "none" when the cell is empty
get_block(b, x, y) == IF <<x, y>> \in DOMAIN b THEN b[<<x, y>>] ELSE "none"

\* mutant of LosCellsX: the step is taken when the error term is <= 0
RECURSIVE LosCellsX_le(_, _, _, _, _, _, _, _)
LosCellsX_le(x, y, e2, ex, dx, dy, step_x, step_y) ==
    IF x = ex THEN << >>
    ELSE LET e2a == e2 - 2 * dy
         IN  <<<<x, y>>>> \o
             (IF e2a <= 0
              THEN LosCellsX_le(x + step_x, y + step_y, e2a + 2 * dx, ex, dx, dy, step_x, step_y)
              ELSE LosCellsX_le(x + step_x, y, e2a, ex, dx, dy, step_x, step_y))

\* check_line_of_sight, the dx > dy loop without its early return: the cells
\* (x, y) the loop body is run on, in order.  e2 is twice the error term of
\* the source, which starts at dx / 2 by true division
RECURSIVE LosCellsX(_, _, _, _, _, _, _, _)
LosCellsX(x, y, e2, ex, dx, dy, step_x, step_y) ==
    IF x = ex THEN << >>
    ELSE LET e2a == e2 - 2 * dy
         IN  <<<<x, y>>>> \o
             (IF e2a < 0
              THEN LosCellsX(x + step_x, y + step_y, e2a + 2 * dx, ex, dx, dy, step_x, step_y)
              ELSE LosCellsX(x + step_x, y, e2a, ex, dx, dy, step_x, step_y))

\* check_line_of_sight, the else loop without its early return
RECURSIVE LosCellsY(_, _, _, _, _, _, _, _)
LosCellsY(x, y, e2, ey, dx, dy, step_x, step_y) ==
    IF y = ey THEN << >>
    ELSE LET e2a == e2 - 2 * dx
         IN  <<<<x, y>>>> \o
             (IF e2a < 0
              THEN LosCellsY(x + step_x, y + step_y, e2a + 2 * dy, ey, dx, dy, step_x, step_y)
              ELSE LosCellsY(x, y + step_y, e2a, ey, dx, dy, step_x, step_y))

\* the cells check_line_of_sight's walk visits from cell s towards cell e
LosCells(s, e) ==
    LET dx == Abs(e[1] - s[1])
        dy == Abs(e[2] - s[2])
        step_x == IF s[1] < e[1] THEN 1 ELSE -1
        step_y == IF s[2] < e[2] THEN 1 ELSE -1
    IN  IF dx > dy
        THEN LosCellsX(s[1], s[2], dx, e[1], dx, dy, step_x, step_y)
        ELSE LosCellsY(s[1], s[2], dy, e[2], dx, dy, step_x, step_y)

\* mutant of LosWalkX: the occupancy test looks at the cell ahead
RECURSIVE LosWalkX_ahead(_, _, _, _, _, _, _, _, _, _)
LosWalkX_ahead(b, x, y, e2, ex, ey, dx, dy, step_x, step_y) ==
    IF x = ex THEN TRUE
    ELSE IF get_block(b, x + step_x, y) # "none" THEN FALSE
    ELSE LET e2a == e2 - 2 * dy
         IN  IF e2a < 0
             THEN LosWalkX_ahead(b, x + step_x, y + step_y, e2a + 2 * dx, ex, ey, dx, dy, step_x, step_y)
             ELSE LosWalkX_ahead(b, x + step_x, y, e2a, ex, ey, dx, dy, step_x, step_y)

\* check_line_of_sight, the dx > dy loop.  e2 is twice the error term of the
\* source (err starts at dx / 2 by true division), so that it stays integral
RECURSIVE LosWalkX(_, _, _, _, _, _, _, _, _, _)
LosWalkX(b, x, y, e2, ex, ey, dx, dy, step_x, step_y) ==
    IF x = ex THEN TRUE
    ELSE IF <<x, y>> # <<ex, ey>> /\ get_block(b, x, y) # "none" THEN FALSE
    ELSE LET e2a == e2 - 2 * dy
         IN  IF e2a < 0
             THEN LosWalkX(b, x + step_x, y + step_y, e2a + 2 * dx, ex, ey, dx, dy, step_x, step_y)
             ELSE LosWalkX(b, x + step_x, y, e2a, ex, ey, dx, dy, step_x, step_y)

\* check_line_of_sight, the else loop (dy >= dx)
RECURSIVE LosWalkY(_, _, _, _, _, _, _, _, _, _)
LosWalkY(b, x, y, e2, ex, ey, dx, dy, step_x, step_y) ==
    IF y = ey THEN TRUE
    ELSE IF <<x, y>> # <<ex, ey>> /\ get_block(b, x, y) # "none" THEN FALSE
    ELSE LET e2a == e2 - 2 * dx
         IN  IF e2a < 0
             THEN LosWalkY(b, x + step_x, y + step_y, e2a + 2 * dy, ex, ey, dx, dy, step_x, step_y)
             ELSE LosWalkY(b, x, y + step_y, e2a, ex, ey, dx, dy, step_x, step_y)

\* mutant of check_line_of_sight: the fast path for adjacent cells is missing
check_line_of_sight_no_fast_path(b, start_x, start_y, end_x, end_y) ==
    LET start_block_x == CellOf(start_x)
        start_block_y == CellOf(start_y)
        end_block_x == CellOf(end_x)
        end_block_y == CellOf(end_y)
        dx == Abs(end_block_x - start_block_x)
        dy == Abs(end_block_y - start_block_y)
        step_x == IF start_block_x < end_block_x THEN 1 ELSE -1
        step_y == IF start_block_y < end_block_y THEN 1 ELSE -1
    IN  IF dx > dy
        THEN LosWalkX(b, start_block_x, start_block_y, dx, end_block_x, end_block_y,
                      dx, dy, step_x, step_y)
        ELSE LosWalkY(b, start_block_x, start_block_y, dy, end_block_x, end_block_y,
                      dx, dy, step_x, step_y)

\* check_line_of_sight(start_x, start_y, end_x, end_y) on pixel coordinates
check_line_of_sight(b, start_x, start_y, end_x, end_y) ==
    LET start_block_x == CellOf(start_x)
        start_block_y == CellOf(start_y)
        end_block_x == CellOf(end_x)
        end_block_y == CellOf(end_y)
        dx == Abs(end_block_x - start_block_x)
        dy == Abs(end_block_y - start_block_y)
        step_x == IF start_block_x < end_block_x THEN 1 ELSE -1
        step_y == IF start_block_y < end_block_y THEN 1 ELSE -1
    IN  IF dx <= 1 /\ dy <= 1 THEN TRUE
        ELSE IF dx > dy
        THEN LosWalkX(b, start_block_x, start_block_y, dx, end_block_x, end_block_y,
                      dx, dy, step_x, step_y)
        ELSE LosWalkY(b, start_block_x, start_block_y, dy, end_block_x, end_block_y,
                      dx, dy, step_x, step_y)

\* mutant of OutOfRange: the reach is 2 cells instead of 3
OutOfRange_short(block_x, block_y, player_block_x, player_block_y) ==
    (block_x - player_block_x) * (block_x - player_block_x)
      + (block_y - player_block_y) * (block_y - player_block_y) > 2 * 2

\* the range check of break_block and place_block:
\* math.sqrt(dx ** 2 + dy ** 2) > 3, i.e. dx*dx + dy*dy > 9
OutOfRange(block_x, block_y, player_block_x, player_block_y) ==
    (block_x - player_block_x) * (block_x - player_block_x)
      + (block_y - player_block_y) * (block_y - player_block_y) > 3 * 3

\* mutant of has_adjacent_block: the offsets reach two cells instead of one
has_adjacent_block_wide(b, x, y) ==
    \E d \in ((-2)..2) \X ((-2)..2) :
        d # <<0, 0>> /\ <<x + d[1], y + d[2]>> \in DOMAIN b

\* has_adjacent_block: one of the 8 neighbouring cells is a key of the mapping
has_adjacent_block(b, x, y) ==
    \E d \in { <<1, 0>>, <<-1, 0>>, <<0, 1>>, <<0, -1>>,
               <<1, 1>>, <<-1, 1>>, <<1, -1>>, <<-1, -1>> } :
        <<x + d[1], y + d[2]>> \in DOMAIN b

\* mutant of would_collide_with_player: rectangles that only touch along an
\* edge count as colliding
would_collide_with_player_touching(block_x, block_y, player_rect) ==
    LET a == BlockRect(block_x, block_y)
    IN  /\ a.x <= player_rect.x + player_rect.w
        /\ a.y <= player_rect.y + player_rect.h
        /\ a.x + a.w >= player_rect.x
        /\ a.y + a.h >= player_rect.y

\* mutant of would_collide_with_player: only the cell of the player's centre
\* is tested instead of the player rectangle
would_collide_with_player_centre(block_x, block_y, player_rect) ==
    /\ block_x = CellOf(centerx(player_rect))
    /\ block_y = CellOf(centery(player_rect))

\* would_collide_with_player
would_collide_with_player(block_x, block_y, player_rect) ==
    colliderect(BlockRect(block_x, block_y), player_rect)

\* check_collision: the search restricted to the clamped bounding box
check_collision(b, rect) ==
    LET start_x == Max(0, CellOf(rect.x))
        end_x == Min(WORLD_WIDTH, CellOf(rect.x + rect.w) + 1)
        start_y == Max(0, CellOf(rect.y))
        end_y == Min(WORLD_HEIGHT, CellOf(rect.y + rect.h) + 1)
    IN  \E x \in start_x..(end_x - 1) : \E y \in start_y..(end_y - 1) :
            /\ <<x, y>> \in DOMAIN b
            /\ colliderect(rect, BlockRect(x, y))

---------------------------------------------------------------------------
(* World transitions: the mapping after the call *)

\* del self.blocks[(x, y)]
DelBlock(b, c) == [ k \in DOMAIN b \ {c} |-> b[k] ]

\* self.blocks[(x, y)] = Block(x, y, block_type)
SetBlock(b, c, block_type) ==
    [ k \in DOMAIN b \cup {c} |-> IF k = c THEN block_type ELSE b[k] ]

\* mutant of break_block: the is_breakable check is missing
break_block_any(b, pos, player_pos) ==
    LET block_x == CellOf(pos[1])
        block_y == CellOf(pos[2])
        player_block_x == CellOf(player_pos[1])
        player_block_y == CellOf(player_pos[2])
    IN  IF <<block_x, block_y>> \notin DOMAIN b THEN b
        ELSE IF OutOfRange(block_x, block_y, player_block_x, player_block_y) THEN b
        ELSE IF ~check_line_of_sight(b, player_pos[1], player_pos[2],
                                     block_x * BLOCK_SIZE + BLOCK_SIZE \div 2,
                                     block_y * BLOCK_SIZE + BLOCK_SIZE \div 2) THEN b
        ELSE DelBlock(b, <<block_x, block_y>>)

\* mutant of break_block: the line-of-sight check is missing
break_block_no_sight(b, pos, player_pos) ==
    LET block_x == CellOf(pos[1])
        block_y == CellOf(pos[2])
        player_block_x == CellOf(player_pos[1])
        player_block_y == CellOf(player_pos[2])
    IN  IF <<block_x, block_y>> \notin DOMAIN b THEN b
        ELSE IF ~is_breakable(b[<<block_x, block_y>>]) THEN b
        ELSE IF OutOfRange(block_x, block_y, player_block_x, player_block_y) THEN b
        ELSE DelBlock(b, <<block_x, block_y>>)

\* break_block(pos, player_pos)
break_block(b, pos, player_pos) ==
    LET block_x == CellOf(pos[1])
        block_y == CellOf(pos[2])
        player_block_x == CellOf(player_pos[1])
        player_block_y == CellOf(player_pos[2])
    IN  IF <<block_x, block_y>> \notin DOMAIN b THEN b
        ELSE IF ~is_breakable(b[<<block_x, block_y>>]) THEN b
        ELSE IF OutOfRange(block_x, block_y, player_block_x, player_block_y) THEN b
        ELSE IF ~check_line_of_sight(b, player_pos[1], player_pos[2],
                                     block_x * BLOCK_SIZE + BLOCK_SIZE \div 2,
                                     block_y * BLOCK_SIZE + BLOCK_SIZE \div 2) THEN b
        ELSE DelBlock(b, <<block_x, block_y>>)

\* mutant of place_block: the check that the target cell is empty is missing
place_block_overwrite(b, pos, player_rect, block_type) ==
    LET block_x == CellOf(pos[1])
        block_y == CellOf(pos[2])
        player_block_x == CellOf(centerx(player_rect))
        player_block_y == CellOf(centery(player_rect))
    IN  IF ~has_adjacent_block(b, block_x, block_y) THEN b
        ELSE IF would_collide_with_player(block_x, block_y, player_rect) THEN b
        ELSE IF OutOfRange(block_x, block_y, player_block_x, player_block_y) THEN b
        ELSE IF ~check_line_of_sight(b, centerx(player_rect), centery(player_rect),
                                     block_x * BLOCK_SIZE + BLOCK_SIZE \div 2,
                                     block_y * BLOCK_SIZE + BLOCK_SIZE \div 2) THEN b
        ELSE SetBlock(b, <<block_x, block_y>>, block_type)

\* place_block(pos, block_type), pos = (x, y, player_rect)
place_block(b, pos, player_rect, block_type) ==
    LET block_x == CellOf(pos[1])
        block_y == CellOf(pos[2])
        player_block_x == CellOf(centerx(player_rect))
        player_block_y == CellOf(centery(player_rect))
    IN  IF <<block_x, block_y>> \in DOMAIN b THEN b
        ELSE IF ~has_adjacent_block(b, block_x, block_y) THEN b
        ELSE IF would_collide_with_player(block_x, block_y, player_rect) THEN b
        ELSE IF OutOfRange(block_x, block_y, player_block_x, player_block_y) THEN b
        ELSE IF ~check_line_of_sight(b, centerx(player_rect), centery(player_rect),
                                     block_x * BLOCK_SIZE + BLOCK_SIZE \div 2,
                                     block_y * BLOCK_SIZE + BLOCK_SIZE \div 2) THEN b
        ELSE SetBlock(b, <<block_x, block_y>>, block_type)

---------------------------------------------------------------------------
(* Inputs of the calls *)

\* lowest surface row the terrain can have
HMin == WORLD_HEIGHT \div 3

\* the rect.y at which the player's feet rest on top of a row
StandY(row) == row * BLOCK_SIZE - PLAYER_HEIGHT

\* player rectangles (Player.rect), all in columns 1 and 2: partly above the
\* world, feet on the highest possible surface row, feet one row lower
PlayerRects ==
    { Rect(BLOCK_SIZE, y, PLAYER_WIDTH, PLAYER_HEIGHT) :
        y \in { -BLOCK_SIZE, StandY(HMin), StandY(HMin + 1) } }

\* target cells: around the players, one cell beyond the world on the left
\* and on top, and the right and bottom borders and the cells beyond them
TargetCells ==
    ((-1..2) \X ({-1, 0} \cup ((HMin - 1)..(HMin + 1))))
    \cup { <<WORLD_WIDTH - 1, HMin>>, <<WORLD_WIDTH, HMin>>,
           <<1, WORLD_HEIGHT - 1>>, <<1, WORLD_HEIGHT>> }

\* mouse positions (camera offset added): the last pixel of each target
\* cell, so that pixel -1 is the mouse position of cell -1
TargetPoints ==
    { <<c[1] * BLOCK_SIZE + BLOCK_SIZE - 1, c[2] * BLOCK_SIZE + BLOCK_SIZE - 1>> :
        c \in TargetCells }

---------------------------------------------------------------------------
(* The state machine: Game.run's loop around World                         *)
(*   blocks  World.blocks, a function from the keys (x, y) to block types  *)
(*   call    the click being handled: its phase ("idle": none, "pending":  *)
(*           read from the event queue, "done": handled), its button       *)
(*           (op), the mouse position, the player rectangle and the        *)
(*           selected block at that moment, and whether the handler        *)
(*           changed the mapping                                           *)
(*   nops    number of clicks handled                                      *)
(*   startup the progress of Game.__init__ (phase), the heights list of    *)
(*           World.generate_terrain and its running height                 *)
(*   player  Player: rect.x, rect.y, the velocities (velocity_y in         *)
(*           hundredths of a pixel per tick), on_ground and the spawn      *)
(*           point                                                         *)
(*   pressed the keyboard state pygame.key.get_pressed returns             *)
(*   upd     what the last Player.update did: whether it called respawn    *)
(*           and whether a vertical step collided                          *)

\* Game.__init__ has returned
StartupDone == [phase |-> "running", heights |-> <<>>, height |-> 0]

\* no Player object is part of the run
NoPlayer ==
    [x |-> 0, y |-> 0, velocity_x |-> 0, velocity_y |-> 0, on_ground |-> FALSE,
     spawn_x |-> 0, spawn_y |-> 0]

\* no key is held
NoKeys == [left |-> FALSE, right |-> FALSE, jump |-> FALSE]

\* no Player.update has run
NoUpdate == [respawned |-> FALSE, hit |-> FALSE]

NoCall ==
    [phase |-> "idle", op |-> "none", pos |-> <<0, 0>>,
     rect |-> Rect(0, 0, PLAYER_WIDTH, PLAYER_HEIGHT),
     block_type |-> "none", changed |-> FALSE]

Init ==
    /\ blocks \in NewWorlds
    /\ call = NoCall
    /\ nops = 0
    /\ startup = StartupDone
    /\ player = NoPlayer
    /\ pressed = NoKeys
    /\ upd = NoUpdate

\* Game.handle_events: a MOUSEBUTTONDOWN with button 1 (break) or 3 (place)
\* is read; mouse position, player rectangle and selected block are read
Click ==
    /\ call.phase = "idle"
    /\ nops < MaxOps
    /\ \E pos \in TargetPoints, r \in PlayerRects :
          \/ call' = [phase |-> "pending", op |-> "break", pos |-> pos, rect |-> r,
                      block_type |-> "none", changed |-> FALSE]
          \/ \E t \in available_blocks :
                call' = [phase |-> "pending", op |-> "place", pos |-> pos, rect |-> r,
                         block_type |-> t, changed |-> FALSE]
    /\ UNCHANGED <<blocks, nops>>
    /\ UNCHANGED playerVars

\* the player point main.py passes to break_block: the rectangle's centre
PlayerPos(r) == <<centerx(r), centery(r)>>

\* Game.handle_events, button 1: world.break_block(mouse_pos, player_pos)
BreakBlock ==
    /\ call.phase = "pending"
    /\ call.op = "break"
    /\ blocks' = break_block(blocks, call.pos, PlayerPos(call.rect))
    /\ call' = [call EXCEPT !.phase = "done", !.changed = (blocks' # blocks)]
    /\ nops' = nops + 1
    /\ UNCHANGED playerVars

\* Game.handle_events, button 3: world.place_block((x, y, rect), selected)
PlaceBlock ==
    /\ call.phase = "pending"
    /\ call.op = "place"
    /\ blocks' = place_block(blocks, call.pos, call.rect, call.block_type)
    /\ call' = [call EXCEPT !.phase = "done", !.changed = (blocks' # blocks)]
    /\ nops' = nops + 1
    /\ UNCHANGED playerVars

\* Game.run: the frame ends and the loop goes on to the next event
NextFrame ==
    /\ call.phase = "done"
    /\ call' = NoCall
    /\ UNCHANGED <<blocks, nops>>
    /\ UNCHANGED playerVars

Next == Click \/ BreakBlock \/ PlaceBlock \/ NextFrame

Spec == Init /\ [][Next]_vars

---------------------------------------------------------------------------
(* Vocabulary of the properties: the call being handled, read from `call` *)

Pending(op) == call.phase = "pending" /\ call.op = op

Done(op) == call.phase = "done" /\ call.op = op

\* the target cell of the call
TargetCell == <<call.pos[1] \div BLOCK_SIZE, call.pos[2] \div BLOCK_SIZE>>

\* the player's cell: the cell of the centre of the player rectangle
PlayerCell ==
    <<(call.rect.x + call.rect.w \div 2) \div BLOCK_SIZE,
      (call.rect.y + call.rect.h \div 2) \div BLOCK_SIZE>>

\* squared Euclidean grid distance between the player's cell and the target
Dist2 ==
    (TargetCell[1] - PlayerCell[1]) * (TargetCell[1] - PlayerCell[1])
    + (TargetCell[2] - PlayerCell[2]) * (TargetCell[2] - PlayerCell[2])

\* line of sight in mapping b from the player's point to the target centre
SightClear(b) ==
    check_line_of_sight(b, centerx(call.rect), centery(call.rect),
                        TargetCell[1] * BLOCK_SIZE + BLOCK_SIZE \div 2,
                        TargetCell[2] * BLOCK_SIZE + BLOCK_SIZE \div 2)

\* the occupied cells among the 8 neighbours of c in mapping b
OccupiedNeighbours(b, c) ==
    { n \in ((c[1] - 1)..(c[1] + 1)) \X ((c[2] - 1)..(c[2] + 1)) :
        n # c /\ n \in DOMAIN b }

\* the pixel square of cell c and rectangle r share a point of positive area
CellOverlaps(c, r) ==
    /\ c[1] * BLOCK_SIZE < r.x + r.w
    /\ r.x < (c[1] + 1) * BLOCK_SIZE
    /\ c[2] * BLOCK_SIZE < r.y + r.h
    /\ r.y < (c[2] + 1) * BLOCK_SIZE

\* mapping b2 is mapping b1 with the entry of cell c removed
RemovedOnly(b1, b2, c) ==
    /\ DOMAIN b2 = DOMAIN b1 \ {c}
    /\ \A k \in DOMAIN b2 : b2[k] = b1[k]

\* mapping b2 is mapping b1 with cell c, empty before, now holding type t
InsertedOnly(b1, b2, c, t) ==
    /\ c \notin DOMAIN b1
    /\ DOMAIN b2 = DOMAIN b1 \cup {c}
    /\ b2[c] = t
    /\ \A k \in DOMAIN b1 : b2[k] = b1[k]

---------------------------------------------------------------------------
(* C1 *)

\* C1: in every reachable state every cell with x = 0, x = WORLD_WIDTH - 1
\* or y = WORLD_HEIGHT - 1 is a key of the mapping and holds a bedrock block,
\* for which is_breakable is false
C1_BorderIsBedrock ==
    \A x \in 0..(WORLD_WIDTH - 1) : \A y \in 0..(WORLD_HEIGHT - 1) :
        (x = 0 \/ x = WORLD_WIDTH - 1 \/ y = WORLD_HEIGHT - 1) =>
            /\ <<x, y>> \in DOMAIN blocks
            /\ blocks[<<x, y>>] = "bedrock"
            /\ ~is_breakable(blocks[<<x, y>>])

\* a break_block call aimed at a border cell next to the player was handled
C1_Witness ==
    /\ Done("break")
    /\ TargetCell[1] = 0
    /\ TargetCell[2] \in 0..(WORLD_HEIGHT - 1)
    /\ Dist2 <= 2

---------------------------------------------------------------------------
(* C2 *)

\* C2: every key (x, y) of the block mapping satisfies 0 <= x < WORLD_WIDTH
\* and 0 <= y < WORLD_HEIGHT
C2_KeysInDomain ==
    \A k \in DOMAIN blocks :
        /\ 0 <= k[1] /\ k[1] < WORLD_WIDTH
        /\ 0 <= k[2] /\ k[2] < WORLD_HEIGHT

---------------------------------------------------------------------------
(* C3 *)

\* C3: a break_block call whose target cell is empty, or holds bedrock, or
\* lies at squared grid distance > 9 from the player's cell, or to which the
\* line of sight is blocked, leaves the mapping unchanged
C3_BreakRejected ==
    [][ ( /\ Pending("break")
          /\ \/ TargetCell \notin DOMAIN blocks
             \/ blocks[TargetCell] = "bedrock"
             \/ Dist2 > 9
             \/ ~SightClear(blocks) )
        => blocks' = blocks ]_vars

\* a break_block call on a breakable block in range was handled and refused
\* because the line of sight was blocked
C3_Witness ==
    /\ Done("break")
    /\ ~call.changed
    /\ TargetCell \in DOMAIN blocks
    /\ blocks[TargetCell] # "bedrock"
    /\ Dist2 <= 9
    /\ ~SightClear(blocks)

---------------------------------------------------------------------------
(* C4 *)

\* C4: a break_block call on a breakable block at squared grid distance <= 9
\* with clear line of sight removes exactly the target's entry: get_block on
\* it is then empty and every other entry is unchanged
C4_BreakRemoves ==
    [][ ( /\ Pending("break")
          /\ TargetCell \in DOMAIN blocks
          /\ blocks[TargetCell] # "bedrock"
          /\ Dist2 <= 9
          /\ SightClear(blocks) )
        => /\ RemovedOnly(blocks, blocks', TargetCell)
           /\ get_block(blocks', TargetCell[1], TargetCell[2]) = "none" ]_vars

\* a block two or three cells away from the player (beyond the adjacency
\* fast path, as the stone at (5,5) seen from (5,3)) was broken
C4_Witness ==
    /\ Done("break")
    /\ call.changed
    /\ TargetCell \notin DOMAIN blocks
    /\ Dist2 >= 4
    /\ TargetCell[1] = PlayerCell[1]

---------------------------------------------------------------------------
(* C5 *)

\* C5: a place_block call at an empty cell with no occupied 8-neighbour
\* leaves the mapping unchanged, whatever the player rectangle and type
C5_PlaceNeedsNeighbour ==
    [][ ( /\ Pending("place")
          /\ TargetCell \notin DOMAIN blocks
          /\ OccupiedNeighbours(blocks, TargetCell) = {} )
        => blocks' = blocks ]_vars

\* a place_block call that passes every other check (clear of the player,
\* in range, visible) was refused at a cell with no occupied neighbour
C5_Witness ==
    /\ Done("place")
    /\ ~call.changed
    /\ TargetCell \notin DOMAIN blocks
    /\ OccupiedNeighbours(blocks, TargetCell) = {}
    /\ ~CellOverlaps(TargetCell, call.rect)
    /\ Dist2 <= 9
    /\ SightClear(blocks)

---------------------------------------------------------------------------
(* C6 *)

\* C6 as claimed: a place_block call at an empty cell with exactly one
\* occupied 8-neighbour, in range and with clear line of sight, occupies it
C6_Original ==
    [][ ( /\ Pending("place")
          /\ TargetCell \notin DOMAIN blocks
          /\ Cardinality(OccupiedNeighbours(blocks, TargetCell)) = 1
          /\ Dist2 <= 9
          /\ SightClear(blocks) )
        => TargetCell \in DOMAIN blocks' ]_vars

\* C6 amended: a place_block call at an empty cell with exactly one occupied
\* 8-neighbour, whose block square does not overlap the player rectangle, in
\* range and with clear line of sight, occupies the cell
C6_PlaceOneNeighbour ==
    [][ ( /\ Pending("place")
          /\ TargetCell \notin DOMAIN blocks
          /\ Cardinality(OccupiedNeighbours(blocks, TargetCell)) = 1
          /\ ~CellOverlaps(TargetCell, call.rect)
          /\ Dist2 <= 9
          /\ SightClear(blocks) )
        => TargetCell \in DOMAIN blocks' ]_vars

\* a block was placed at a cell with exactly one occupied neighbour
C6_Witness ==
    /\ Done("place")
    /\ call.changed
    /\ TargetCell \in DOMAIN blocks
    /\ Cardinality(OccupiedNeighbours(blocks, TargetCell)) = 1

---------------------------------------------------------------------------
(* C7 *)

\* C7: place_block changes the mapping only when the target cell is empty,
\* has an occupied 8-neighbour, does not overlap the player rectangle, is in
\* range and visible; it then inserts exactly one block of the requested
\* type at the target and keeps every other entry; otherwise nothing changes
C7_PlaceFrame ==
    [][ Pending("place") =>
          IF /\ TargetCell \notin DOMAIN blocks
             /\ OccupiedNeighbours(blocks, TargetCell) # {}
             /\ ~CellOverlaps(TargetCell, call.rect)
             /\ Dist2 <= 9
             /\ SightClear(blocks)
          THEN InsertedOnly(blocks, blocks', TargetCell, call.block_type)
          ELSE blocks' = blocks ]_vars

\* a wood block was placed two or three cells away from the player
C7_Witness ==
    /\ Done("place")
    /\ call.changed
    /\ call.block_type = "wood"
    /\ TargetCell \in DOMAIN blocks
    /\ blocks[TargetCell] = "wood"
    /\ Dist2 >= 4

---------------------------------------------------------------------------
(* C8 *)

\* C8: a block place_block inserts never overlaps the player rectangle
\* passed to it, and if check_collision(player_rect) is false before the
\* call it is false after it
C8_NoSelfTrap ==
    [][ Pending("place") =>
          /\ (blocks' # blocks => ~CellOverlaps(TargetCell, call.rect))
          /\ (~check_collision(blocks, call.rect)
                => ~check_collision(blocks', call.rect)) ]_vars

\* a block was placed right under the feet of a player who collides with
\* nothing: in the rows check_collision scans, touching the rectangle
C8_Witness ==
    /\ Done("place")
    /\ call.changed
    /\ ~check_collision(blocks, call.rect)
    /\ TargetCell[1] = PlayerCell[1]
    /\ TargetCell[2] * BLOCK_SIZE = call.rect.y + call.rect.h

---------------------------------------------------------------------------
(* C9 *)

\* the centres of the cells of columns 0 .. 3 around the surface
SightPoints ==
    { <<x * BLOCK_SIZE + BLOCK_SIZE \div 2, y * BLOCK_SIZE + BLOCK_SIZE \div 2>> :
        x \in 0..3, y \in (HMin - 1)..(HMin + 2) }

\* C9: line of sight is symmetric: for every pair of points a, b,
\* check_line_of_sight(a, b) equals check_line_of_sight(b, a)
C9_SightSymmetric ==
    \A a \in SightPoints : \A b \in SightPoints :
        check_line_of_sight(blocks, a[1], a[2], b[1], b[2])
          = check_line_of_sight(blocks, b[1], b[2], a[1], a[2])

---------------------------------------------------------------------------
(* C10 *)

\* rectangles of the player's size and single-cell squares, inside the
\* world, across its left and top edge and wholly outside it
ProbeRects ==
    { Rect(x, y, wh[1], wh[2]) :
        x \in { -BLOCK_SIZE, 0, BLOCK_SIZE, (WORLD_WIDTH - 1) * BLOCK_SIZE },
        y \in { -PLAYER_HEIGHT, -BLOCK_SIZE, 0, StandY(HMin), StandY(HMin + 1) },
        wh \in { <<PLAYER_WIDTH, PLAYER_HEIGHT>>, <<BLOCK_SIZE, BLOCK_SIZE>> } }

\* some entry of mapping b has a block rectangle that intersects rect
IntersectsSomeEntry(b, rect) ==
    \E k \in DOMAIN b :
        /\ k[1] * BLOCK_SIZE < rect.x + rect.w
        /\ rect.x < (k[1] + 1) * BLOCK_SIZE
        /\ k[2] * BLOCK_SIZE < rect.y + rect.h
        /\ rect.y < (k[2] + 1) * BLOCK_SIZE

\* C10: check_collision(rect) is true exactly when some entry of the block
\* mapping has a block rectangle that intersects rect
C10_CollisionIsScan ==
    \A rect \in ProbeRects :
        check_collision(blocks, rect) = IntersectsSomeEntry(blocks, rect)

\* the same equivalence in the states where every key lies inside the world
\* (holds: C10 fails only through the keys C2 lets in)
C10_InsideWorld ==
    C2_KeysInDomain => C10_CollisionIsScan


---------------------------------------------------------------------------
(* Game.__init__, step by step: the height walk of generate_terrain, the   *)
(* terrain fill, the bedrock borders, then the player at its spawn point   *)

\* get_surface_height: the first occupied row of column x, mid-height when
\* the column is empty
get_surface_height(b, x) ==
    LET rows == { y \in 0..(WORLD_HEIGHT - 1) : <<x, y>> \in DOMAIN b }
    IN  IF rows = {} THEN WORLD_HEIGHT \div 2
        ELSE CHOOSE y \in rows : \A z \in rows : y <= z

\* Player.__init__: the player at spawn point (x, y), at rest, not on ground
NewPlayer(x, y) ==
    [x |-> x, y |-> y, velocity_x |-> 0, velocity_y |-> 0, on_ground |-> FALSE,
     spawn_x |-> x, spawn_y |-> y]

\* Player.rect
PlayerRect(p) == Rect(p.x, p.y, PLAYER_WIDTH, PLAYER_HEIGHT)

\* Game.__init__: the player on the world b
SpawnedPlayer(b) ==
    LET spawn_x == WORLD_WIDTH \div 2
        spawn_y == get_surface_height(b, spawn_x) - 3
    IN  NewPlayer(spawn_x * BLOCK_SIZE, spawn_y * BLOCK_SIZE)

\* World.__init__ is entered: blocks = {}, heights = [], height at mid-height
StartupInit ==
    /\ blocks = [c \in {} |-> "none"]
    /\ call = NoCall
    /\ nops = 0
    /\ startup = [phase |-> "heights", heights |-> << >>,
                  height |-> WORLD_HEIGHT \div 2]
    /\ player = NoPlayer
    /\ pressed = NoKeys
    /\ upd = NoUpdate

\* generate_terrain, one round of the first loop: a random step in -1..1,
\* the clamp, the append
NextHeight ==
    /\ startup.phase = "heights"
    /\ Len(startup.heights) < WORLD_WIDTH
    /\ \E r \in -1..1 :
          LET height == ClampHeight(startup.height + r)
          IN  startup' = [startup EXCEPT !.height = height,
                                          !.heights = Append(@, height)]
    /\ UNCHANGED <<blocks, call, nops, player, pressed, upd>>

\* generate_terrain, the second loop: the blocks of the height list
FillTerrain ==
    /\ startup.phase = "heights"
    /\ Len(startup.heights) = WORLD_WIDTH
    /\ blocks' = TerrainBlocks(startup.heights)
    /\ startup' = [startup EXCEPT !.phase = "terrain"]
    /\ UNCHANGED <<call, nops, player, pressed, upd>>

\* World.__init__: add_bedrock_borders after generate_terrain
AddBorders ==
    /\ startup.phase = "terrain"
    /\ blocks' = add_bedrock_borders(blocks)
    /\ startup' = [startup EXCEPT !.phase = "borders"]
    /\ UNCHANGED <<call, nops, player, pressed, upd>>

\* Game.__init__: the player is created at the spawn point
SpawnPlayer ==
    /\ startup.phase = "borders"
    /\ player' = SpawnedPlayer(blocks)
    /\ startup' = [startup EXCEPT !.phase = "running"]
    /\ UNCHANGED <<blocks, call, nops, pressed, upd>>

StartupNext == NextHeight \/ FillTerrain \/ AddBorders \/ SpawnPlayer

SpecStartup == StartupInit /\ [][StartupNext]_vars

\* C11: every height generate_terrain appends lies in
\* [WORLD_HEIGHT // 3, WORLD_HEIGHT - 10], and two neighbouring columns
\* differ by at most 1, the first and the clamped columns included
C11_HeightsBounded ==
    LET hs == startup.heights
    IN  /\ \A i \in 1..Len(hs) :
              /\ WORLD_HEIGHT \div 3 <= hs[i]
              /\ hs[i] <= WORLD_HEIGHT - 10
        /\ \A i \in 1..(Len(hs) - 1) : Abs(hs[i + 1] - hs[i]) <= 1

\* a full height list whose first column was clamped from above and which
\* goes down to the lower clamp and up again
C11_Witness ==
    LET hs == startup.heights
    IN  /\ Len(hs) = WORLD_WIDTH
        /\ hs[1] = WORLD_HEIGHT - 10
        /\ WORLD_HEIGHT \div 2 + 1 > WORLD_HEIGHT - 10
        /\ \E i \in 2..(Len(hs) - 1) :
              /\ hs[i] = WORLD_HEIGHT \div 3
              /\ hs[i + 1] = hs[i] + 1

\* C12: the player Game.__init__ creates collides with nothing
C12_SpawnIsFree ==
    startup.phase = "running" =>
        /\ player.x = (WORLD_WIDTH \div 2) * BLOCK_SIZE
        /\ player.y = (get_surface_height(blocks, WORLD_WIDTH \div 2) - 3) * BLOCK_SIZE
        /\ ~check_collision(blocks, PlayerRect(player))


---------------------------------------------------------------------------
(* check_line_of_sight as a function of its two points: a freshly built    *)
(* world is queried from one point to another.  `call` holds the query:    *)
(* its start and end points (pixels) and the result                        *)

\* cells of the queries: the surface rows of the terrain with the air above
\* and the ground below, one column beyond the world on either side
SightCells == (-1..WORLD_WIDTH) \X ((HMin - 2)..(HMin + 3))

\* a pixel of a cell: its last one, so that pixel -1 belongs to cell -1
PointOf(c) == <<c[1] * BLOCK_SIZE + BLOCK_SIZE - 1, c[2] * BLOCK_SIZE + BLOCK_SIZE - 1>>

SightInit ==
    /\ blocks \in NewWorlds
    /\ call = NoCall
    /\ nops = 0
    /\ startup = StartupDone
    /\ player = NoPlayer
    /\ pressed = NoKeys
    /\ upd = NoUpdate

\* world.check_line_of_sight(start_x, start_y, end_x, end_y)
Look ==
    /\ call.phase = "idle"
    /\ \E s \in SightCells, e \in SightCells :
          call' = [phase |-> "done", op |-> "sight",
                   start |-> PointOf(s), pos |-> PointOf(e),
                   result |-> check_line_of_sight(blocks, PointOf(s)[1], PointOf(s)[2],
                                                  PointOf(e)[1], PointOf(e)[2])]
    /\ UNCHANGED <<blocks, nops>>
    /\ UNCHANGED playerVars

\* the caller goes on
Looked ==
    /\ call.phase = "done"
    /\ call.op = "sight"
    /\ call' = NoCall
    /\ UNCHANGED <<blocks, nops>>
    /\ UNCHANGED playerVars

SightNext == Look \/ Looked

SpecSight == SightInit /\ [][SightNext]_vars

\* a line-of-sight query has returned
Seen == call.phase = "done" /\ call.op = "sight"

\* the cells of the query's two points
StartCell == <<CellOf(call.start[1]), CellOf(call.start[2])>>

EndCell == <<CellOf(call.pos[1]), CellOf(call.pos[2])>>

\* the two cells are identical or 8-adjacent
Adjacent(s, e) == Abs(s[1] - e[1]) <= 1 /\ Abs(s[2] - e[2]) <= 1

\* some cell of the walk from s towards e, other than e, is occupied in b
WalkBlocked(b, s, e) ==
    \E i \in 1..Len(LosCells(s, e)) :
        LosCells(s, e)[i] # e /\ LosCells(s, e)[i] \in DOMAIN b

\* C16: for cells more than Chebyshev distance 1 apart check_line_of_sight
\* is false exactly when a cell of the walk other than the destination is
\* occupied, and the result is the same with the destination cell emptied
\* or filled
C16_SightIsWalk ==
    (Seen /\ ~Adjacent(StartCell, EndCell)) =>
        /\ call.result = ~WalkBlocked(blocks, StartCell, EndCell)
        /\ call.result = check_line_of_sight(DelBlock(blocks, EndCell),
                             call.start[1], call.start[2], call.pos[1], call.pos[2])
        /\ call.result = check_line_of_sight(SetBlock(blocks, EndCell, "stone"),
                             call.start[1], call.start[2], call.pos[1], call.pos[2])

\* a clear diagonal sight line of three or more cells onto an occupied cell
C16_Witness ==
    /\ Seen
    /\ ~Adjacent(StartCell, EndCell)
    /\ StartCell[1] # EndCell[1]
    /\ StartCell[2] # EndCell[2]
    /\ Len(LosCells(StartCell, EndCell)) >= 3
    /\ EndCell \in DOMAIN blocks
    /\ call.result

\* C17: check_line_of_sight is true when the two cells are identical or
\* 8-adjacent, whichever cells are occupied
C17_AdjacentIsClear == (Seen /\ Adjacent(StartCell, EndCell)) => call.result

\* a query between two different adjacent cells that are both occupied
C17_Witness ==
    /\ Seen
    /\ Adjacent(StartCell, EndCell)
    /\ StartCell # EndCell
    /\ StartCell \in DOMAIN blocks
    /\ EndCell \in DOMAIN blocks
    /\ call.result

\* the dx > dy walk with the error term started at the integer dx // 2
RECURSIVE FloorCellsX(_, _, _, _, _, _, _, _)
FloorCellsX(x, y, err, ex, dx, dy, step_x, step_y) ==
    IF x = ex THEN << >>
    ELSE LET e == err - dy
         IN  <<<<x, y>>>> \o
             (IF e < 0
              THEN FloorCellsX(x + step_x, y + step_y, e + dx, ex, dx, dy, step_x, step_y)
              ELSE FloorCellsX(x + step_x, y, e, ex, dx, dy, step_x, step_y))

\* the else walk with the error term started at the integer dy // 2
RECURSIVE FloorCellsY(_, _, _, _, _, _, _, _)
FloorCellsY(x, y, err, ey, dx, dy, step_x, step_y) ==
    IF y = ey THEN << >>
    ELSE LET e == err - dx
         IN  <<<<x, y>>>> \o
             (IF e < 0
              THEN FloorCellsY(x + step_x, y + step_y, e + dy, ey, dx, dy, step_x, step_y)
              ELSE FloorCellsY(x, y + step_y, e, ey, dx, dy, step_x, step_y))

FloorCells(s, e) ==
    LET dx == Abs(e[1] - s[1])
        dy == Abs(e[2] - s[2])
        step_x == IF s[1] < e[1] THEN 1 ELSE -1
        step_y == IF s[2] < e[2] THEN 1 ELSE -1
    IN  IF dx > dy
        THEN FloorCellsX(s[1], s[2], dx \div 2, e[1], dx, dy, step_x, step_y)
        ELSE FloorCellsY(s[1], s[2], dy \div 2, e[2], dx, dy, step_x, step_y)

\* C18: the walk whose error term starts at dx / 2 (dy / 2) by true division
\* visits the same sequence of cells as the walk started at the integer
\* floor of dx / 2 (dy / 2)
C18_TrueDivisionIsFloor ==
    Seen => LosCells(StartCell, EndCell) = FloorCells(StartCell, EndCell)

\* a walk with an odd dx (dx / 2 has a fractional part) that steps in y
C18_Witness ==
    /\ Seen
    /\ Abs(EndCell[1] - StartCell[1]) > Abs(EndCell[2] - StartCell[2])
    /\ Abs(EndCell[1] - StartCell[1]) % 2 = 1
    /\ Abs(EndCell[2] - StartCell[2]) >= 2


---------------------------------------------------------------------------
(* Player physics (src/game/player.py).  velocity_y is kept in hundredths   *)
(* of a pixel per tick: every value it takes is JUMP_SPEED or 0 plus a      *)
(* number of GRAVITY steps, or MAX_FALL_SPEED                               *)

\* hundredths in one pixel per tick
VScale == 100

\* settings.py: GRAVITY = 0.35, in hundredths
GRAVITY == 35

\* settings.py: JUMP_SPEED = -6
JUMP_SPEED == -6 * VScale

\* settings.py: MAX_FALL_SPEED = 10
MAX_FALL_SPEED == 10 * VScale

\* settings.py: PLAYER_SPEED, pixels per tick
PLAYER_SPEED == 5

\* int(self.velocity_y): truncation towards zero of the float the program
\* holds.  The repeated additions of 0.35 land just below the whole numbers
\* 1, 7 and 8 (0.9999999999999989, 6.999999999999997, 7.999999999999996),
\* which int() truncates to 0, 6 and 7; MAX_FALL_SPEED is the exact 10 of
\* min(); no sum is 0
IntVel(v) ==
    IF v < 0 THEN -((-v) \div VScale)
    ELSE IF v % VScale = 0 /\ v > 0 /\ v < MAX_FALL_SPEED THEN v \div VScale - 1
    ELSE v \div VScale

\* Player.check_ground: the rectangle one pixel lower collides
check_ground(b, p) ==
    check_collision(b, Rect(p.x, p.y + 1, PLAYER_WIDTH, PLAYER_HEIGHT))

\* mutant of ApplyGravity: the clamp at MAX_FALL_SPEED is missing
ApplyGravity_unclamped(velocity_y) == velocity_y + GRAVITY

\* Player.update: min(self.velocity_y + GRAVITY, MAX_FALL_SPEED)
ApplyGravity(velocity_y) == Min(velocity_y + GRAVITY, MAX_FALL_SPEED)

\* mutant of Velocities: the jump does not need the ground
Velocities_air_jump(b, p, k) ==
    LET velocity_x == IF k.right THEN PLAYER_SPEED
                      ELSE IF k.left THEN -PLAYER_SPEED ELSE 0
        ground == check_ground(b, p)
        jump == k.jump
        on_ground == ground /\ ~jump
        velocity_y == IF jump THEN JUMP_SPEED ELSE p.velocity_y
    IN  [velocity_x |-> velocity_x,
         velocity_y |-> IF ~on_ground THEN ApplyGravity(velocity_y) ELSE velocity_y,
         on_ground |-> on_ground,
         jump |-> jump]

\* Player.update, the velocities after input, ground check, jump and gravity
Velocities(b, p, k) ==
    LET velocity_x == IF k.right THEN PLAYER_SPEED
                      ELSE IF k.left THEN -PLAYER_SPEED ELSE 0
        ground == check_ground(b, p)
        jump == k.jump /\ ground
        on_ground == ground /\ ~jump
        velocity_y == IF jump THEN JUMP_SPEED ELSE p.velocity_y
    IN  [velocity_x |-> velocity_x,
         velocity_y |-> IF ~on_ground THEN ApplyGravity(velocity_y) ELSE velocity_y,
         on_ground |-> on_ground,
         jump |-> jump]

\* Player.update, horizontal movement: rect.x after the move, which is
\* reverted when the moved rectangle collides
MoveX(b, x, y, velocity_x) ==
    IF check_collision(b, Rect(x + velocity_x, y, PLAYER_WIDTH, PLAYER_HEIGHT))
    THEN x ELSE x + velocity_x

\* Player.update, the vertical loop: n more steps of one pixel from rect.y
\* = y; a colliding step is reverted and ends the loop (hit)
RECURSIVE VerticalSteps(_, _, _, _, _)
VerticalSteps(b, x, y, step, n) ==
    IF n = 0 THEN [y |-> y, hit |-> FALSE]
    ELSE IF check_collision(b, Rect(x, y + step, PLAYER_WIDTH, PLAYER_HEIGHT))
    THEN [y |-> y, hit |-> TRUE]
    ELSE VerticalSteps(b, x, y + step, step, n - 1)

\* mutant of FellOut: the void check is one cell too low
FellOut_late(y) == y > (WORLD_HEIGHT + 1) * BLOCK_SIZE

\* Player.update, void check: rect.y > WORLD_HEIGHT * BLOCK_SIZE
FellOut(y) == y > WORLD_HEIGHT * BLOCK_SIZE

\* mutant of respawn: the velocities are reset, the position is not
respawn_velocity_only(p) == [p EXCEPT !.velocity_x = 0, !.velocity_y = 0]

\* mutant of respawn: rect.y is not reset
respawn_keep_y(p) ==
    [p EXCEPT !.x = p.spawn_x, !.velocity_x = 0, !.velocity_y = 0]

\* Player.respawn
respawn(p) ==
    [p EXCEPT !.x = p.spawn_x, !.y = p.spawn_y, !.velocity_x = 0, !.velocity_y = 0]

\* Player.update, vertical movement: abs(int(velocity_y)) steps of one pixel
\* in the direction of velocity_y, none when velocity_y is 0
VerticalMove(b, x, y, velocity_y) ==
    IF velocity_y # 0
    THEN VerticalSteps(b, x, y, IF velocity_y > 0 THEN 1 ELSE -1, Abs(IntVel(velocity_y)))
    ELSE [y |-> y, hit |-> FALSE]

\* the player after the movement: velocities v, rect.x = x, vertical move m
Moved(p, v, x, m) ==
    [p EXCEPT !.x = x, !.y = m.y,
              !.velocity_x = v.velocity_x,
              !.velocity_y = IF m.hit THEN 0 ELSE v.velocity_y,
              !.on_ground = v.on_ground]

\* Player.update, void check: respawn() when the player fell out
VoidCheck(p) == IF FellOut(p.y) THEN respawn(p) ELSE p

---------------------------------------------------------------------------
(* Game.run, the player's part: the keyboard state changes between frames  *)
(* and every frame calls Player.update.  The runs start with the player at *)
(* its spawn point on a freshly built world or, on the flat world, on top  *)
(* of the left bedrock wall, where a player arrives who has built a pillar *)
(* beside the wall and jumped onto it from the pillar                      *)

\* keyboard states: left / right / jump held; with both directions held the
\* program moves right, as with right alone
KeyStates ==
    { k \in [left : BOOLEAN, right : BOOLEAN, jump : BOOLEAN] : ~(k.left /\ k.right) }

\* the surface row of the first column when the random step is 0
FlatHeight == ClampHeight(WORLD_HEIGHT \div 2)

\* the world the height walk builds when every random step is 0
FlatWorld ==
    add_bedrock_borders(TerrainBlocks([i \in 1..WORLD_WIDTH |-> FlatHeight]))

\* the world whose ground rises by one cell right after the spawn column
\* (one random step of -1, all others 0)
StepUpWorld ==
    add_bedrock_borders(TerrainBlocks(
        [i \in 1..WORLD_WIDTH |->
            IF i <= WORLD_WIDTH \div 2 + 1 THEN FlatHeight ELSE FlatHeight - 1]))

\* the world with a one-cell plateau from column 1 to the spawn column
\* (random steps -1 and later +1, all others 0)
PlateauWorld ==
    add_bedrock_borders(TerrainBlocks(
        [i \in 1..WORLD_WIDTH |->
            IF i >= 2 /\ i <= WORLD_WIDTH \div 2 + 1 THEN FlatHeight - 1 ELSE FlatHeight]))

\* the flat world after the player has built a pillar of dirt in column 1,
\* from the surface up to row 1, by placing a block under its feet in every
\* jump
PillarWorld ==
    [ c \in DOMAIN FlatWorld \cup ({1} \X (1..(FlatHeight - 1))) |->
        IF c \in DOMAIN FlatWorld THEN FlatWorld[c] ELSE "dirt" ]

\* the worlds of the runs, three of the worlds World.__init__ can build
PlayWorlds == { b \in NewWorlds : b \in {FlatWorld, StepUpWorld, PlateauWorld} }

\* rect.x of a player standing on the left wall, the whole rectangle left of
\* column 1: rect.x moves in steps of PLAYER_SPEED from the spawn point
WallX ==
    CHOOSE x \in (BLOCK_SIZE - PLAYER_WIDTH - PLAYER_SPEED + 1)..(BLOCK_SIZE - PLAYER_WIDTH) :
        ((WORLD_WIDTH \div 2) * BLOCK_SIZE - x) % PLAYER_SPEED = 0

\* the player of world b standing on top of the left wall
WallPlayer(b) ==
    [SpawnedPlayer(b) EXCEPT !.x = WallX, !.y = -PLAYER_HEIGHT, !.on_ground = TRUE]

PlayInit ==
    /\ \/ /\ blocks \in PlayWorlds
          /\ player = SpawnedPlayer(blocks)
       \/ /\ blocks = PillarWorld
          /\ player = WallPlayer(blocks)
    /\ call = NoCall
    /\ nops = 0
    /\ startup = StartupDone
    /\ pressed = NoKeys
    /\ upd = NoUpdate

\* keys are pressed or released: what pygame.key.get_pressed returns changes.
\* The jump key goes down only while the player is between the side walls
\* and below their top
Keyboard ==
    /\ pressed' \in KeyStates \ {pressed}
    /\ pressed'.jump => (player.x >= BLOCK_SIZE /\ player.y >= 0)
    /\ UNCHANGED <<blocks, call, nops, startup, player, upd>>

\* Game.update: self.player.update(self.world), the stages of Player.update
\* in their order; upd records whether the tick ended in respawn() and
\* whether a vertical step collided
Tick ==
    /\ \E v \in {Velocities(blocks, player, pressed)} :
       \E x \in {MoveX(blocks, player.x, player.y, v.velocity_x)} :
       \E m \in {VerticalMove(blocks, x, player.y, v.velocity_y)} :
          /\ player' = VoidCheck(Moved(player, v, x, m))
          /\ upd' = [respawned |-> FellOut(m.y), hit |-> m.hit]
    /\ UNCHANGED <<blocks, call, nops, startup, pressed>>

PlayNext == Keyboard \/ Tick

SpecPlay == PlayInit /\ [][PlayNext]_vars


---------------------------------------------------------------------------
(* Properties of Player.update *)

\* the step is a Player.update that changed the player or its record
TickStep == player' # player \/ upd' # upd

\* C13: rect.y never exceeds WORLD_HEIGHT * BLOCK_SIZE after an update, and
\* a tick whose movement brought rect.y above it ends at the spawn point
\* with both velocities 0
C13_VoidRespawns ==
    /\ player.y <= WORLD_HEIGHT * BLOCK_SIZE
    /\ upd.respawned =>
          /\ player.x = player.spawn_x
          /\ player.y = player.spawn_y
          /\ player.velocity_x = 0
          /\ player.velocity_y = 0

\* a tick has just ended in respawn()
C13_Witness == upd.respawned /\ player.y = player.spawn_y

\* C19: a colliding vertical step is reverted, velocity_y becomes 0 and no
\* further step is taken: the tick ends at a pixel that does not collide
\* while the next pixel in the direction of travel does, and rect.y moves by
\* at most abs(int(velocity_y)) pixels in a tick
C19_StepReverted ==
    [][ LET v == Velocities(blocks, player, pressed)
            step == IF v.velocity_y > 0 THEN 1 ELSE -1
            n == Abs(IntVel(v.velocity_y))
        IN  (TickStep /\ ~upd'.respawned) =>
              /\ Abs(player'.y - player.y) <= n
              /\ upd'.hit =>
                    /\ player'.velocity_y = 0
                    /\ Abs(player'.y - player.y) < n
                    /\ ~check_collision(blocks, PlayerRect(player'))
                    /\ check_collision(blocks,
                           Rect(player'.x, player'.y + step, PLAYER_WIDTH, PLAYER_HEIGHT))
      ]_vars

\* the same for the ticks that start at a position that does not collide
C19_FromFreePosition ==
    [][ LET v == Velocities(blocks, player, pressed)
            step == IF v.velocity_y > 0 THEN 1 ELSE -1
            n == Abs(IntVel(v.velocity_y))
        IN  (TickStep /\ ~upd'.respawned /\ ~check_collision(blocks, PlayerRect(player))) =>
              /\ Abs(player'.y - player.y) <= n
              /\ upd'.hit =>
                    /\ player'.velocity_y = 0
                    /\ Abs(player'.y - player.y) < n
                    /\ ~check_collision(blocks, PlayerRect(player'))
                    /\ check_collision(blocks,
                           Rect(player'.x, player'.y + step, PLAYER_WIDTH, PLAYER_HEIGHT))
      ]_vars

\* C20: JUMP_SPEED <= velocity_y <= MAX_FALL_SPEED in every state
C20_VelocityBounded ==
    /\ JUMP_SPEED <= player.velocity_y
    /\ player.velocity_y <= MAX_FALL_SPEED

\* a fall between the walls that gravity has brought to the clamp
C20_Witness ==
    /\ player.velocity_y = MAX_FALL_SPEED
    /\ player.x >= BLOCK_SIZE
    /\ ~player.on_ground


\* the runs that start on top of the left wall
FallInit ==
    /\ PlayInit
    /\ player = WallPlayer(blocks)

\* Game.run calls Player.update in every frame: the ticks go on
SpecPlayFair == FallInit /\ [][PlayNext]_vars /\ WF_vars(Tick)

\* the player is left of the world and below the top of the wall: no block
\* lies under the rectangle and the wall bars the way back
Falling ==
    /\ player.x + PLAYER_WIDTH <= 0
    /\ player.y + PLAYER_HEIGHT > 0

\* C15: a player in free fall is eventually respawned: the falling player
\* is led to a tick that ends in respawn() at the spawn point
C15_FallEndsInRespawn ==
    Falling ~> (upd.respawned /\ player.x = player.spawn_x /\ player.y = player.spawn_y)

\* a free fall outside the world at the maximum fall speed
C15_Witness ==
    /\ Falling
    /\ player.velocity_y = MAX_FALL_SPEED
    /\ player.y > 0


---------------------------------------------------------------------------
(* Game.run with block placement: a player on top of the left wall walks   *)
(* and places blocks with the right mouse button                           *)

\* settings.py
SCREEN_WIDTH == 800

SCREEN_HEIGHT == 600

\* Game.update: the camera is centred on the player
Camera(p) ==
    <<centerx(PlayerRect(p)) - SCREEN_WIDTH \div 2,
      centery(PlayerRect(p)) - SCREEN_HEIGHT \div 2>>

\* pygame.mouse.get_pos(): one cell right of and below the screen centre
MousePoints == { <<SCREEN_WIDTH \div 2 + BLOCK_SIZE, SCREEN_HEIGHT \div 2 + BLOCK_SIZE>> }

BuildInit ==
    /\ PlayInit
    /\ player = WallPlayer(blocks)

\* the right key is pressed or released
WalkKey ==
    /\ pressed' \in { k \in KeyStates : ~k.left /\ ~k.jump } \ {pressed}
    /\ UNCHANGED <<blocks, call, nops, startup, player, upd>>

\* Game.handle_events, MOUSEBUTTONDOWN with button 3: the mouse position
\* plus the camera offset, the player's rectangle, the selected block
PlaceClick ==
    /\ nops < MaxOps
    /\ \E mouse \in MousePoints :
          blocks' = place_block(blocks,
                                <<mouse[1] + Camera(player)[1], mouse[2] + Camera(player)[2]>>,
                                PlayerRect(player), "dirt")
    /\ nops' = nops + 1
    /\ UNCHANGED <<call, startup, player, pressed, upd>>

BuildNext == WalkKey \/ Tick \/ PlaceClick

SpecBuild == BuildInit /\ [][BuildNext]_vars

\* C14: a tick that starts with the player's rectangle intersecting no block
\* and does not end in respawn() ends with the rectangle intersecting no
\* block
C14_StaysFree ==
    [][ (TickStep /\ ~upd'.respawned /\ ~IntersectsSomeEntry(blocks, PlayerRect(player)))
          => ~IntersectsSomeEntry(blocks, PlayerRect(player')) ]_vars

\* the same property for the blocks inside the world, which check_collision
\* finds: a tick never ends in a position check_collision reports
C14_InsideWorld ==
    [][ (TickStep /\ ~upd'.respawned /\ ~check_collision(blocks, PlayerRect(player)))
          => ~check_collision(blocks, PlayerRect(player')) ]_vars


---------------------------------------------------------------------------
(* The jump *)

\* velocity_y at the end of a tick that started a jump and met no ceiling:
\* the impulse with the gravity of the same tick
JumpVelocity == JUMP_SPEED + GRAVITY

\* C21: a jump starts only from the ground: a tick leaves velocity_y at the
\* jump impulse (plus the gravity of the same tick) only when the jump key
\* is held and the rectangle one pixel lower collides at the start of the
\* tick, and such a tick clears on_ground and applies gravity: velocity_y
\* ends at JUMP_SPEED + GRAVITY, or at 0 when an upward step collided
C21_JumpFromGround ==
    [][ TickStep =>
          /\ player'.velocity_y = JumpVelocity =>
                (pressed.jump /\ check_ground(blocks, player))
          /\ (pressed.jump /\ check_ground(blocks, player)) =>
                /\ ~player'.on_ground
                /\ \/ player'.velocity_y = JumpVelocity
                   \/ upd'.hit /\ player'.velocity_y = 0
      ]_vars

\* a jump has just started from the ground and the player has risen
C21_Witness ==
    /\ pressed.jump
    /\ player.velocity_y = JumpVelocity
    /\ ~player.on_ground
    /\ ~upd.hit
    /\ check_collision(blocks,
           Rect(player.x, player.y - IntVel(JumpVelocity) + 1, PLAYER_WIDTH, PLAYER_HEIGHT))


---------------------------------------------------------------------------
(* The terrain layers *)

\* the number of rows from row y down to the lower edge of the world, the
\* row's own included: the bottom row WORLD_HEIGHT - 1 is row 1 above it
RowsAboveFloor(y) == WORLD_HEIGHT - y

\* the layers of column x for the height h, read from the blocks
ColumnLayered(x, h) ==
    \A y \in 0..(WORLD_HEIGHT - 1) :
       get_block(blocks, x, y) =
          IF y < h THEN "none"
          ELSE IF y = h THEN "grass"
          ELSE IF RowsAboveFloor(y) > 5 THEN "stone" ELSE "dirt"

\* C22: after the terrain fill and before the border overlay, in every
\* column x the cell at the column's height is grass, every cell above it
\* (y < height) is empty, and every cell below it (y > height) is stone
\* when it lies more than 5 rows above the lower edge of the world
\* (WORLD_HEIGHT - y > 5) and dirt otherwise; no other cell holds a block
C22_TerrainLayers ==
    startup.phase = "terrain" =>
       /\ \A x \in 0..(WORLD_WIDTH - 1) : ColumnLayered(x, startup.heights[x + 1])
       /\ DOMAIN blocks \subseteq (0..(WORLD_WIDTH - 1)) \X (0..(WORLD_HEIGHT - 1))

\* the terrain is filled, the borders are not yet laid, and some column
\* shows all four layers with the last stone row directly on the first
\* dirt row, next to a column of another height
C22_Witness ==
    /\ startup.phase = "terrain"
    /\ \E x \in 0..(WORLD_WIDTH - 2) :
          LET h == startup.heights[x + 1]
          IN  /\ startup.heights[x + 2] # h
              /\ get_block(blocks, x, h - 1) = "none"
              /\ get_block(blocks, x, h) = "grass"
              /\ get_block(blocks, x, h + 1) = "stone"
              /\ get_block(blocks, x, WORLD_HEIGHT - 6) = "stone"
              /\ get_block(blocks, x, WORLD_HEIGHT - 5) = "dirt"
              /\ get_block(blocks, x, WORLD_HEIGHT - 1) = "dirt"

=============================================================================
